---- MODULE Spec2Model ----
(***************************************************************************)
(* VhdlAddrGenerator (scripts/pyXact_generator/ip_xact/                    *)
(* vhdl_addr_generator.py): the generator of a VHDL package of address,    *)
(* bit-position, enumerated-value and reset-value constants from an        *)
(* IP-XACT memory map.                                                     *)
(*                                                                         *)
(* The generator object holds addrMap, fieldMap and busWidth (set by the   *)
(* constructor) and a VhdlGenerator whose buffer `out` every method        *)
(* appends to.  `out` is modelled as the sequence of renderer calls made   *)
(* so far, one entry per call, each entry recording the call's arguments.  *)
(***************************************************************************)
EXTENDS Integers, Sequences, FiniteSets, TLC

VARIABLES
    busWidth,   \* self.busWidth
    addrMap,    \* self.addrMap  (None or a memory map)
    fieldMap,   \* self.fieldMap (None or a memory map)
    out,        \* self.vhdlGen.out
    of,         \* self.of: what has been written to the output file
    call,       \* the method call that was made last, and where its output starts
    ncalls,     \* number of method calls made on generators so far
    pkgOut      \* the buffer as it stood at the end of each create_addrMap_package

vars == <<busWidth, addrMap, fieldMap, out, of, call, ncalls, pkgOut>>

(***************************************************************************)
(* Bounds of the model.                                                    *)
(***************************************************************************)
MaxBitOffset  == 3   \* field.bitOffset ranges over 0..MaxBitOffset
MaxBitWidth   == 5   \* field.bitWidth ranges over 1..MaxBitWidth
MaxAddrOffset == 4   \* reg.addressOffset ranges over 0..MaxAddrOffset
MaxEnumVal    == 1   \* enumerated values range over 0..MaxEnumVal
MaxEnums      == 2   \* enumerated values per set
MaxSets       == 2   \* enumerated-value sets per field
MaxResetVal   == 1   \* reset literals range over 0..MaxResetVal
MaxFields     == 3   \* fields in the field catalogue
MaxRegs       == 3   \* registers in the register catalogue
MaxBlocks     == 2   \* address blocks in the block catalogue
MaxCalls      == 2   \* method calls per behaviour, package level

BusWidths == {8, 16, 32}

(***************************************************************************)
(* Python values.                                                          *)
(***************************************************************************)
None == [isNone |-> TRUE]

\* a / b on Python 3 integers is true division: the result is a float,
\* kept here as the fraction it stands for
TrueDiv(a, b) == [num |-> a, den |-> b]

RECURSIVE StableOrder(_, _)
\* the indices 1..n of the key sequence k, ordered by ascending key, equal
\* keys keeping their original order
StableOrder(k, n) ==
    IF n = 0 THEN <<>>
    ELSE LET p == StableOrder(k, n - 1)
             c == Cardinality({j \in 1..Len(p) : k[p[j]] <= k[n]})
         IN  SubSeq(p, 1, c) \o <<n>> \o SubSeq(p, c + 1, Len(p))

\* sorted(s, key=...): a new list, ascending by key, stable; k[i] is the key
\* of s[i]
sorted(s, k) ==
    LET p == StableOrder(k, Len(s))
    IN  [i \in 1..Len(s) |-> s[p[i]]]

RECURSIVE Flatten(_)
\* the concatenation of a sequence of sequences: the lines appended by the
\* iterations of a for loop, in iteration order
Flatten(ss) == IF ss = <<>> THEN <<>> ELSE Head(ss) \o Flatten(Tail(ss))

\* str.upper() on the register names of the catalogue
upper(s) ==
    CASE s = "mode"   -> "MODE"
      [] s = "status" -> "STATUS"
      [] s = "ctrl"   -> "CTRL"
      [] s = "data"   -> "DATA"
      [] OTHER        -> s

(***************************************************************************)
(* The renderer (VhdlGenerator, LanDeclaration): each call appends one     *)
(* entry holding its arguments.                                            *)
(***************************************************************************)
LanDeclaration(name, value, type, bitWidth, specifier, alignLen) ==
    [kind |-> "decl", name |-> name, value |-> value, type |-> type,
     bitWidth |-> bitWidth, specifier |-> specifier, alignLen |-> alignLen]

write_decl(decl) == <<decl>>

wr_nl == <<[kind |-> "nl"]>>

write_comm_line == <<[kind |-> "rule"]>>

write_comm_line_gap(gap) == <<[kind |-> "rule", gap |-> gap]>>

write_comment(text, gap) == <<[kind |-> "comment", text |-> text, gap |-> gap]>>

write_comment_small(text, gap) ==
    <<[kind |-> "comment", text |-> text, gap |-> gap, small |-> TRUE]>>

write_comment_caption(text, gap, capt) ==
    <<[kind |-> "comment", text |-> text, gap |-> gap, caption |-> capt]>>

create_includes(libs) == <<[kind |-> "include", libs |-> libs]>>

create_package(name, start) ==
    <<[kind |-> "package", name |-> name, start |-> start]>>

(***************************************************************************)
(* Field level.                                                            *)
(***************************************************************************)
\* write_reg_enums with the sort left out: every set in document order
write_reg_enums_Unsorted(field) ==
    IF field.enumeratedValues = <<>> THEN <<>>
    ELSE wr_nl
         \o write_comment_small("\"" \o field.name \o "\" field enumerated values", 2)
         \o Flatten([i \in 1..Len(field.enumeratedValues) |->
              LET es == field.enumeratedValues[i]
              IN  Flatten([j \in 1..Len(es.enumeratedValue) |->
                    write_decl(LanDeclaration(es.enumeratedValue[j].name,
                               es.enumeratedValue[j].value,
                               "std_logic", field.bitWidth, "constant", 50))])])

\* write_reg_enums: the lines appended
write_reg_enums(field) ==
    IF field.enumeratedValues = <<>> THEN <<>>
    ELSE wr_nl
         \o write_comment_small("\"" \o field.name \o "\" field enumerated values", 2)
         \o Flatten([i \in 1..Len(field.enumeratedValues) |->
              LET es == field.enumeratedValues[i]
                  ev == es.enumeratedValue
                  svals == sorted(ev, [x \in DOMAIN ev |-> ev[x].value])
              IN  Flatten([j \in 1..Len(svals) |->
                    write_decl(LanDeclaration(svals[j].name, svals[j].value,
                               "std_logic", field.bitWidth, "constant", 50))])])

\* write_reg_enums: the value returned
write_reg_enums_ret(field) ==
    IF field.enumeratedValues = <<>> THEN "False" ELSE "None"

\* write_res_vals with the value and the width of the declaration exchanged
write_res_vals_Swapped(field) ==
    IF field.resets = None THEN <<>>
    ELSE IF field.resets.reset = None THEN <<>>
    ELSE write_decl(LanDeclaration(field.name \o "_RSTVAL",
                    field.bitWidth, "std_logic", field.resets.reset.value,
                    "constant", 50))

\* write_res_vals: the lines appended
write_res_vals(field) ==
    IF field.resets = None THEN <<>>
    ELSE IF field.resets.reset = None THEN <<>>
    ELSE write_decl(LanDeclaration(field.name \o "_RSTVAL",
                    field.resets.reset.value, "std_logic", field.bitWidth,
                    "constant", 50))

\* write_res_vals: the value returned
write_res_vals_ret(field) ==
    IF field.resets = None THEN "False"
    ELSE IF field.resets.reset = None THEN "False"
    ELSE "None"

\* write_reg_field comparing the adjusted high index with the unadjusted low
\* index
write_reg_field_RawLow(field, reg, bw) ==
    LET bitIndexL0 == field.bitOffset
        bitIndexH0 == field.bitOffset + field.bitWidth - 1
        bitIndexL  == bitIndexL0 + ((reg.addressOffset * 8) % bw)
        bitIndexH  == bitIndexH0 + ((reg.addressOffset * 8) % bw)
        iter == IF bitIndexH = bitIndexL0
                THEN << <<"_IND", bitIndexL>> >>
                ELSE << <<"_L", bitIndexL>>, <<"_H", bitIndexH>> >>
    IN  Flatten([i \in 1..Len(iter) |->
          write_decl(LanDeclaration(field.name \o iter[i][1], iter[i][2],
                     "natural", field.bitWidth, "constant", 50))])

\* write_reg_field taking the byte offset for a bit offset: no factor 8
write_reg_field_Bytes(field, reg, bw) ==
    LET bitIndexL0 == field.bitOffset
        bitIndexH0 == field.bitOffset + field.bitWidth - 1
        bitIndexL  == bitIndexL0 + (reg.addressOffset % bw)
        bitIndexH  == bitIndexH0 + (reg.addressOffset % bw)
        iter == IF bitIndexH = bitIndexL
                THEN << <<"_IND", bitIndexL>> >>
                ELSE << <<"_L", bitIndexL>>, <<"_H", bitIndexH>> >>
    IN  Flatten([i \in 1..Len(iter) |->
          write_decl(LanDeclaration(field.name \o iter[i][1], iter[i][2],
                     "natural", field.bitWidth, "constant", 50))])

\* write_reg_field: the lines appended, on a generator of bus width bw
write_reg_field(field, reg, bw) ==
    LET bitIndexL0 == field.bitOffset
        bitIndexH0 == field.bitOffset + field.bitWidth - 1
        bitIndexL  == bitIndexL0 + ((reg.addressOffset * 8) % bw)
        bitIndexH  == bitIndexH0 + ((reg.addressOffset * 8) % bw)
        iter == IF bitIndexH = bitIndexL
                THEN << <<"_IND", bitIndexL>> >>
                ELSE << <<"_L", bitIndexL>>, <<"_H", bitIndexH>> >>
    IN  Flatten([i \in 1..Len(iter) |->
          write_decl(LanDeclaration(field.name \o iter[i][1], iter[i][2],
                     "natural", field.bitWidth, "constant", 50))])

(***************************************************************************)
(* Register level.                                                         *)
(***************************************************************************)
\* __write_reg with the field pass and the enum pass merged into one loop
__write_reg_Merged(reg, writeFields, writeEnums, writeReset, bw) ==
    LET capt == upper(reg.name) \o " register"
        sfield == sorted(reg.field,
                         [a \in DOMAIN reg.field |-> reg.field[a].bitOffset])
    IN  write_comment_caption(reg.description, 2, capt)
        \o Flatten([i \in 1..Len(sfield) |->
                      (IF writeFields = TRUE
                       THEN write_reg_field(sfield[i], reg, bw) ELSE <<>>)
                      \o (IF writeEnums = TRUE
                          THEN write_reg_enums(sfield[i]) ELSE <<>>)])
        \o (IF writeEnums = TRUE THEN wr_nl ELSE <<>>)
        \o (IF writeReset = TRUE
            THEN write_comment_small(upper(reg.name) \o " register reset values", 2)
                 \o Flatten([i \in 1..Len(reg.field) |->
                               write_res_vals(reg.field[i])])
            ELSE <<>>)
        \o wr_nl

\* __write_reg: the lines appended
__write_reg(reg, writeFields, writeEnums, writeReset, bw) ==
    LET capt == upper(reg.name) \o " register"
        sfield == sorted(reg.field,
                         [a \in DOMAIN reg.field |-> reg.field[a].bitOffset])
    IN  write_comment_caption(reg.description, 2, capt)
        \o (IF writeFields = TRUE
            THEN Flatten([i \in 1..Len(sfield) |->
                            write_reg_field(sfield[i], reg, bw)])
            ELSE <<>>)
        \o (IF writeEnums = TRUE
            THEN Flatten([i \in 1..Len(reg.field) |->
                            write_reg_enums(reg.field[i])])
                 \o wr_nl
            ELSE <<>>)
        \o (IF writeReset = TRUE
            THEN write_comment_small(upper(reg.name) \o " register reset values", 2)
                 \o Flatten([i \in 1..Len(reg.field) |->
                               write_res_vals(reg.field[i])])
            ELSE <<>>)
        \o wr_nl

\* write_regs: the lines appended
write_regs(regs, bw) ==
    LET sregs == sorted(regs, [a \in DOMAIN regs |-> regs[a].addressOffset])
    IN  Flatten([i \in 1..Len(sregs) |->
                   __write_reg(sregs[i], TRUE, TRUE, TRUE, bw)])

(***************************************************************************)
(* Address-block level.                                                    *)
(***************************************************************************)
\* write_addrbl_head: the lines appended
write_addrbl_head(addressBlock) ==
    LET bitWidth == 4
    IN  write_comm_line
        \o write_comment("Address block: " \o addressBlock.name, 2)
        \o write_comm_line
        \o write_decl(LanDeclaration(addressBlock.name \o "_BLOCK",
                      TrueDiv(addressBlock.baseAddress, addressBlock.range),
                      "std_logic", bitWidth, "constant", 80))
        \o wr_nl

\* write_addrbl_regs with the sort left out: the registers in document order
write_addrbl_regs_DocOrder(addressBlock) ==
    Flatten([i \in 1..Len(addressBlock.register) |->
      write_decl(LanDeclaration(addressBlock.register[i].name \o "_ADR",
                 addressBlock.register[i].addressOffset + addressBlock.baseAddress,
                 "std_logic", 12, "constant", 80))])

\* write_addrbl_regs: the lines appended
write_addrbl_regs(addressBlock) ==
    LET register == addressBlock.register
        sregs == sorted(register,
                        [a \in DOMAIN register |-> register[a].addressOffset])
    IN  Flatten([i \in 1..Len(sregs) |->
          write_decl(LanDeclaration(sregs[i].name \o "_ADR",
                     sregs[i].addressOffset + addressBlock.baseAddress,
                     "std_logic", 12, "constant", 80))])

(***************************************************************************)
(* Memory-map level.  Each operator is applied to a map that is not None;  *)
(* the actions below raise where the code dereferences None.               *)
(***************************************************************************)
\* write_mem_map_addr visiting the blocks in ascending baseAddress order
write_mem_map_addr_SortedBlocks(am) ==
    LET sblocks == sorted(am.addressBlock,
                          [a \in DOMAIN am.addressBlock |-> am.addressBlock[a].baseAddress])
    IN  Flatten([i \in 1..Len(sblocks) |->
                   write_addrbl_head(sblocks[i])
                   \o write_addrbl_regs(sblocks[i])
                   \o wr_nl])

\* write_mem_map_addr: the lines appended
write_mem_map_addr(am) ==
    Flatten([i \in 1..Len(am.addressBlock) |->
               write_addrbl_head(am.addressBlock[i])
               \o write_addrbl_regs(am.addressBlock[i])
               \o wr_nl])

\* write_mem_map_fields: the lines appended
write_mem_map_fields(fm, bw) ==
    Flatten([i \in 1..Len(fm.addressBlock) |->
               write_regs(fm.addressBlock[i].register, bw)])

\* write_mem_map_both: the lines appended
write_mem_map_both(am, fm, bw) ==
    write_mem_map_fields(fm, bw) \o write_mem_map_addr(am)

\* create_addrMap_package running the fields mode before the addresses mode
create_addrMap_package_FieldsFirst(name, am, fm, bw) ==
    wr_nl
    \o write_comm_line_gap(0)
    \o (IF am # None
        THEN write_comment_small("Addresses map for: " \o am.name, 0)
        ELSE <<>>)
    \o (IF fm # None
        THEN write_comment_small("Field map for: " \o fm.name, 0)
        ELSE <<>>)
    \o write_comment_small("This file is autogenerated, DO NOT EDIT!", 0)
    \o write_comm_line_gap(0)
    \o wr_nl
    \o create_includes(<<"std_logic_1164.all">>)
    \o wr_nl
    \o create_package(name, TRUE)
    \o wr_nl
    \o (IF fm # None THEN write_mem_map_fields(fm, bw) ELSE <<>>)
    \o (IF am # None THEN write_mem_map_addr(am) ELSE <<>>)
    \o create_package(name, FALSE)

\* create_addrMap_package whose fields mode falls back on the address map
\* when no field map is given
create_addrMap_package_FieldsFallback(name, am, fm, bw) ==
    wr_nl
    \o write_comm_line_gap(0)
    \o (IF am # None
        THEN write_comment_small("Addresses map for: " \o am.name, 0)
        ELSE <<>>)
    \o (IF fm # None
        THEN write_comment_small("Field map for: " \o fm.name, 0)
        ELSE <<>>)
    \o write_comment_small("This file is autogenerated, DO NOT EDIT!", 0)
    \o write_comm_line_gap(0)
    \o wr_nl
    \o create_includes(<<"std_logic_1164.all">>)
    \o wr_nl
    \o create_package(name, TRUE)
    \o wr_nl
    \o (IF am # None THEN write_mem_map_addr(am) ELSE <<>>)
    \o (IF fm # None THEN write_mem_map_fields(fm, bw)
        ELSE IF am # None THEN write_mem_map_fields(am, bw) ELSE <<>>)
    \o create_package(name, FALSE)

\* create_addrMap_package: the lines appended
create_addrMap_package(name, am, fm, bw) ==
    wr_nl
    \o write_comm_line_gap(0)
    \o (IF am # None
        THEN write_comment_small("Addresses map for: " \o am.name, 0)
        ELSE <<>>)
    \o (IF fm # None
        THEN write_comment_small("Field map for: " \o fm.name, 0)
        ELSE <<>>)
    \o write_comment_small("This file is autogenerated, DO NOT EDIT!", 0)
    \o write_comm_line_gap(0)
    \o wr_nl
    \o create_includes(<<"std_logic_1164.all">>)
    \o wr_nl
    \o create_package(name, TRUE)
    \o wr_nl
    \o (IF am # None THEN write_mem_map_addr(am) ELSE <<>>)
    \o (IF fm # None THEN write_mem_map_fields(fm, bw) ELSE <<>>)
    \o create_package(name, FALSE)

(***************************************************************************)
(* The document model handed to the generator: records with the attribute  *)
(* names the code reads, and the bounded sets the inputs are drawn from.   *)
(***************************************************************************)
Digit(n) ==
    CASE n = 0 -> "0" [] n = 1 -> "1" [] n = 2 -> "2" [] n = 3 -> "3"
      [] n = 4 -> "4" [] n = 5 -> "5" [] n = 6 -> "6" [] n = 7 -> "7"
      [] n = 8 -> "8" [] OTHER -> "9"

\* the orderings of the whole set S
FullPerms(S) ==
    {s \in [1..Cardinality(S) -> S] : \A i, j \in DOMAIN s : i # j => s[i] # s[j]}

\* the lists without repetition over the set S, of every length
Perms(S) ==
    {s \in UNION {[1..k -> S] : k \in 0..Cardinality(S)} :
        \A i, j \in DOMAIN s : i # j => s[i] # s[j]}

Field(name, bitOffset, bitWidth, resets, enumeratedValues) ==
    [name |-> name, bitOffset |-> bitOffset, bitWidth |-> bitWidth,
     resets |-> resets, enumeratedValues |-> enumeratedValues]

Register(name, description, addressOffset, field) ==
    [name |-> name, description |-> description,
     addressOffset |-> addressOffset, field |-> field]

AddressBlock(name, baseAddress, range, register) ==
    [name |-> name, baseAddress |-> baseAddress, range |-> range,
     register |-> register]

MemoryMap(name, addressBlock) == [name |-> name, addressBlock |-> addressBlock]

\* the enumerated-value set number i of the field fname, holding the values
\* vals in document order
EnumSet(fname, i, vals) ==
    [enumeratedValue |->
        [j \in 1..Len(vals) |->
            [name |-> fname \o "_E" \o Digit(i) \o Digit(j), value |-> vals[j]]]]

\* every list of at most MaxEnums values
EnumValLists == UNION {[1..k -> 0..MaxEnumVal] : k \in 0..MaxEnums}

\* the enumeratedValues collection of the field fname whose i-th set holds
\* the values vl[i]
EnumCollection(fname, vl) == [i \in DOMAIN vl |-> EnumSet(fname, i, vl[i])]

\* every resets attribute: absent, present without a literal, with a literal
ResetsValues ==
    {None, [reset |-> None]} \cup {[reset |-> [value |-> v]] : v \in 0..MaxResetVal}

\* the fields of the catalogue: bit offsets descend with i, so that a list in
\* index order is not in bitOffset order
FieldCat(i) ==
    Field("f" \o Digit(i),
          2 * (MaxFields + 1 - i),
          IF i % 3 = 1 THEN 1 ELSE 2,
          CASE i % 3 = 1 -> [reset |-> [value |-> 1]]
            [] i % 3 = 2 -> None
            [] OTHER     -> [reset |-> None],
          CASE i % 3 = 1 -> <<EnumSet("f" \o Digit(i), 1, <<1, 0>>)>>
            [] i % 3 = 2 -> <<>>
            [] OTHER     -> <<EnumSet("f" \o Digit(i), 1, <<2>>),
                              EnumSet("f" \o Digit(i), 2, <<1, 0>>)>>)

FieldLists == {[i \in DOMAIN p |-> FieldCat(p[i])] : p \in Perms(1..MaxFields)}

RegName(i) ==
    CASE i = 1 -> "mode" [] i = 2 -> "status" [] i = 3 -> "ctrl"
      [] i = 4 -> "data" [] OTHER -> "r" \o Digit(i)

RegOffset(i) == IF i = 1 THEN 0 ELSE 2 * i

\* the registers of the catalogue
RegCat(i) ==
    Register(RegName(i), RegName(i) \o " description", RegOffset(i),
             CASE i % 3 = 1 -> <<FieldCat(2), FieldCat(1)>>
               [] i % 3 = 2 -> <<FieldCat(1), FieldCat(3)>>
               [] OTHER     -> <<>>)

RegLists == {[i \in DOMAIN p |-> RegCat(p[i])] : p \in Perms(1..MaxRegs)}

\* the address blocks of the catalogue: block i holds the registers j with
\* j % MaxBlocks = i % MaxBlocks, the highest offset first
BlockCat(i) ==
    LET mine == {j \in 1..MaxRegs : j % MaxBlocks = i % MaxBlocks}
        some == CHOOSE s \in [1..Cardinality(mine) -> {RegCat(j) : j \in mine}] :
                   \A a, b \in DOMAIN s : a # b => s[a] # s[b]
        regs == sorted(some, [a \in DOMAIN some |-> 0 - some[a].addressOffset])
    IN  AddressBlock("b" \o Digit(i), (i - 1) * 4096, 4096, regs)

\* the block lists of the memory maps: the catalogue in every document order
BlockLists == {[i \in DOMAIN p |-> BlockCat(p[i])] : p \in FullPerms(1..MaxBlocks)}

Maps == {MemoryMap("regs", bl) : bl \in BlockLists}

PkgNames == {"can_fd_register_map"}

(***************************************************************************)
(* The generator as a state machine: one action per method call.           *)
(***************************************************************************)
\* VhdlAddrGenerator(pyXactComp, addrMap, fieldMap, busWidth) with both maps
\* absent
InitNoMaps ==
    /\ busWidth \in BusWidths
    /\ addrMap = None
    /\ fieldMap = None
    /\ out = <<>>
    /\ of = <<>>
    /\ call = [op |-> "__init__", mark |-> 0, raised |-> FALSE]
    /\ ncalls = 0
    /\ pkgOut = <<>>

\* VhdlAddrGenerator(pyXactComp, addrMap, fieldMap, busWidth)
Init ==
    /\ busWidth \in BusWidths
    /\ addrMap \in {None} \cup Maps
    /\ fieldMap \in {None} \cup Maps
    /\ out = <<>>
    /\ of = <<>>
    /\ call = [op |-> "__init__", mark |-> 0, raised |-> FALSE]
    /\ ncalls = 0
    /\ pkgOut = <<>>

\* the lines the last call appended to the buffer
Emitted == SubSeq(out, call.mark + 1, Len(out))

\* a call that appends lines and returns
Returns(c, lines) ==
    /\ out' = out \o lines
    /\ call' = [c EXCEPT !.mark = Len(out), !.raised = FALSE]
    /\ ncalls' = ncalls + 1
    /\ UNCHANGED <<busWidth, addrMap, fieldMap, of, pkgOut>>

\* a call that appends lines and then raises an exception
Raises(c, lines) ==
    /\ out' = out \o lines
    /\ call' = [c EXCEPT !.mark = Len(out), !.raised = TRUE]
    /\ ncalls' = ncalls + 1
    /\ UNCHANGED <<busWidth, addrMap, fieldMap, of, pkgOut>>

(***************************************************************************)
(* Field level: each behaviour is one call on a newly built generator.     *)
(***************************************************************************)
Call_write_reg_field ==
    /\ ncalls = 0
    /\ \E bo \in 0..MaxBitOffset, bw \in 1..MaxBitWidth, ao \in 0..MaxAddrOffset :
         LET field == Field("f1", bo, bw, None, <<>>)
             reg   == Register("mode", "mode description", ao, <<field>>)
         IN  Returns([op |-> "write_reg_field", mark |-> 0, raised |-> FALSE,
                      field |-> field, reg |-> reg],
                     write_reg_field(field, reg, busWidth))

Call_write_reg_enums ==
    /\ ncalls = 0
    /\ \E k \in 0..MaxSets : \E vl \in [1..k -> EnumValLists] :
         LET field == Field("f1", 0, 2, None, EnumCollection("f1", vl))
         IN  Returns([op |-> "write_reg_enums", mark |-> 0, raised |-> FALSE,
                      field |-> field, ret |-> write_reg_enums_ret(field)],
                     write_reg_enums(field))

Call_write_res_vals ==
    /\ ncalls = 0
    /\ \E r \in ResetsValues, bw \in 1..MaxBitWidth :
         LET field == Field("f1", 0, bw, r, <<>>)
         IN  Returns([op |-> "write_res_vals", mark |-> 0, raised |-> FALSE,
                      field |-> field, ret |-> write_res_vals_ret(field)],
                     write_res_vals(field))

NextField ==
    \/ Call_write_reg_field
    \/ Call_write_reg_enums
    \/ Call_write_res_vals

SpecField == InitNoMaps /\ [][NextField]_vars

(***************************************************************************)
(* Register level: each behaviour is one call on a newly built generator.  *)
(***************************************************************************)
\* the registers handed to __write_reg and write_reg: a catalogue register
\* with any list of catalogue fields
RegInputs ==
    {[RegCat(i) EXCEPT !.field = fl] : i \in 1..MaxRegs, fl \in FieldLists}

\* self.__write_reg(reg, writeFields, writeEnums, writeReset)
Call___write_reg ==
    /\ ncalls = 0
    /\ \E reg \in RegInputs, wf \in BOOLEAN, we \in BOOLEAN, wr \in BOOLEAN :
         Returns([op |-> "__write_reg", mark |-> 0, raised |-> FALSE,
                  reg |-> reg, writeFields |-> wf, writeEnums |-> we,
                  writeReset |-> wr],
                 __write_reg(reg, wf, we, wr, busWidth))

\* write_reg(reg, writeFields, writeRstVal, writeEnums): the bound method
\* self.__write_reg is called with self as an extra first argument, six
\* positional arguments for the five it takes: TypeError, nothing appended
Call_write_reg ==
    /\ ncalls = 0
    /\ \E reg \in RegInputs, wf \in BOOLEAN, wr \in BOOLEAN, we \in BOOLEAN :
         Raises([op |-> "write_reg", mark |-> 0, raised |-> TRUE,
                 reg |-> reg, writeFields |-> wf, writeEnums |-> we,
                 writeReset |-> wr],
                <<>>)

Call_write_regs ==
    /\ ncalls = 0
    /\ \E regs \in RegLists :
         Returns([op |-> "write_regs", mark |-> 0, raised |-> FALSE,
                  regs |-> regs],
                 write_regs(regs, busWidth))

NextReg ==
    \/ Call___write_reg
    \/ Call_write_reg
    \/ Call_write_regs

SpecReg == InitNoMaps /\ [][NextReg]_vars

(***************************************************************************)
(* Address-block level: each behaviour is one call on a newly built        *)
(* generator.                                                              *)
(***************************************************************************)
\* the blocks handed to write_addrbl_head and write_addrbl_regs: a catalogue
\* block with the catalogue's registers in any number and document order
BlockInputs ==
    {[BlockCat(i) EXCEPT !.register = rl] : i \in 1..MaxBlocks, rl \in RegLists}

Call_write_addrbl_head ==
    /\ ncalls = 0
    /\ \E block \in BlockInputs :
         Returns([op |-> "write_addrbl_head", mark |-> 0, raised |-> FALSE,
                  addressBlock |-> block],
                 write_addrbl_head(block))

Call_write_addrbl_regs ==
    /\ ncalls = 0
    /\ \E block \in BlockInputs :
         Returns([op |-> "write_addrbl_regs", mark |-> 0, raised |-> FALSE,
                  addressBlock |-> block],
                 write_addrbl_regs(block))

NextBlock ==
    \/ Call_write_addrbl_head
    \/ Call_write_addrbl_regs

SpecBlock == InitNoMaps /\ [][NextBlock]_vars

(***************************************************************************)
(* Package level: up to MaxCalls calls on generators built over the same   *)
(* maps.                                                                   *)
(***************************************************************************)
\* a second VhdlAddrGenerator(pyXactComp, addrMap, fieldMap, busWidth) built
\* over the same arguments: it has a VhdlGenerator, and so a buffer, of its own
Call___init__ ==
    /\ ncalls > 0
    /\ out # <<>>
    /\ out' = <<>>
    /\ of' = <<>>
    /\ call' = [op |-> "__init__", mark |-> 0, raised |-> FALSE]
    /\ UNCHANGED <<busWidth, addrMap, fieldMap, ncalls, pkgOut>>

Call_commit_to_file ==
    /\ ncalls < MaxCalls
    /\ of' = of \o out
    /\ call' = [op |-> "commit_to_file", mark |-> Len(out), raised |-> FALSE]
    /\ ncalls' = ncalls + 1
    /\ UNCHANGED <<busWidth, addrMap, fieldMap, out, pkgOut>>

\* self.addrMap.addressBlock raises AttributeError when addrMap is None
Call_write_mem_map_addr ==
    /\ ncalls < MaxCalls
    /\ LET c == [op |-> "write_mem_map_addr", mark |-> 0, raised |-> FALSE]
       IN  IF addrMap = None
           THEN Raises(c, <<>>)
           ELSE Returns(c, write_mem_map_addr(addrMap))

\* self.fieldMap.addressBlock raises AttributeError when fieldMap is None
Call_write_mem_map_fields ==
    /\ ncalls < MaxCalls
    /\ LET c == [op |-> "write_mem_map_fields", mark |-> 0, raised |-> FALSE]
       IN  IF fieldMap = None
           THEN Raises(c, <<>>)
           ELSE Returns(c, write_mem_map_fields(fieldMap, busWidth))

\* write_mem_map_fields, then write_mem_map_addr; the first to meet a None
\* map raises, after what ran before it has been appended
Call_write_mem_map_both ==
    /\ ncalls < MaxCalls
    /\ LET c == [op |-> "write_mem_map_both", mark |-> 0, raised |-> FALSE]
       IN  IF fieldMap = None
           THEN Raises(c, <<>>)
           ELSE IF addrMap = None
           THEN Raises(c, write_mem_map_fields(fieldMap, busWidth))
           ELSE Returns(c, write_mem_map_both(addrMap, fieldMap, busWidth))

\* create_addrMap_package emptying the buffer before it writes
Call_create_addrMap_package_Reset ==
    /\ ncalls < MaxCalls
    /\ \E name \in PkgNames :
         /\ out' = create_addrMap_package(name, addrMap, fieldMap, busWidth)
         /\ call' = [op |-> "create_addrMap_package", mark |-> 0,
                     raised |-> FALSE, name |-> name]
         /\ ncalls' = ncalls + 1
         /\ pkgOut' = Append(pkgOut, [mark |-> Len(out), buf |-> out'])
         /\ UNCHANGED <<busWidth, addrMap, fieldMap, of>>

Call_create_addrMap_package ==
    /\ ncalls < MaxCalls
    /\ \E name \in PkgNames :
         /\ out' = out \o create_addrMap_package(name, addrMap, fieldMap, busWidth)
         /\ call' = [op |-> "create_addrMap_package", mark |-> Len(out),
                     raised |-> FALSE, name |-> name]
         /\ ncalls' = ncalls + 1
         /\ pkgOut' = Append(pkgOut, [mark |-> Len(out), buf |-> out'])
         /\ UNCHANGED <<busWidth, addrMap, fieldMap, of>>

Next ==
    \/ Call___init__
    \/ Call_commit_to_file
    \/ Call_write_mem_map_addr
    \/ Call_write_mem_map_fields
    \/ Call_write_mem_map_both
    \/ Call_create_addrMap_package

Spec == Init /\ [][Next]_vars

(***************************************************************************)
(* Properties of the field level (SpecField).                              *)
(***************************************************************************)
\* a declaration handed to the renderer
IsDecl(e) == e.kind = "decl"

\* the declarations among the lines the last call appended
EmittedDecls == SelectSeq(Emitted, IsDecl)

\* C1: write_reg_field emits declarations only; for a field of bitWidth 1
\* exactly one, named <field>_IND; for a field of bitWidth > 1 exactly two,
\* named <field>_L then <field>_H; and the low index emitted is at most the
\* high index emitted.
C1_IndOrLowHigh ==
    call.op = "write_reg_field" =>
        LET f == call.field
            e == Emitted
        IN  /\ \A i \in DOMAIN e : IsDecl(e[i])
            /\ f.bitWidth = 1 =>
                 /\ Len(e) = 1
                 /\ e[1].name = f.name \o "_IND"
            /\ f.bitWidth > 1 =>
                 /\ Len(e) = 2
                 /\ e[1].name = f.name \o "_L"
                 /\ e[2].name = f.name \o "_H"
            /\ Len(e) >= 1
            /\ e[1].value <= e[Len(e)].value

\* a 1-bit field in a register that sits at a non-zero bit position of the
\* bus word has been written, as one declaration
C1_Witness ==
    /\ call.op = "write_reg_field"
    /\ call.field.bitWidth = 1
    /\ (call.reg.addressOffset * 8) % busWidth # 0
    /\ Len(Emitted) = 1

\* C10: write_reg_field emits low = bitOffset + ((addressOffset*8) mod
\* busWidth) and high = bitOffset + bitWidth - 1 + the same term, so that
\* high - low = bitWidth - 1; the term is 0 when addressOffset is a multiple
\* of busWidth/8; every declaration carries the field's own bitWidth; and
\* bitOffset 3, bitWidth 5, addressOffset 4, busWidth 32 give _L = 3, _H = 7.
C10_BusRelativeIndices ==
    call.op = "write_reg_field" =>
        LET f     == call.field
            r     == call.reg
            e     == Emitted
            shift == (r.addressOffset * 8) % busWidth
            low   == e[1].value
            high  == e[Len(e)].value
        IN  /\ Len(e) >= 1
            /\ low = f.bitOffset + shift
            /\ high = f.bitOffset + f.bitWidth - 1 + shift
            /\ high - low = f.bitWidth - 1
            /\ (\E k \in 0..r.addressOffset : r.addressOffset = k * (busWidth \div 8))
                 => /\ low = f.bitOffset
                    /\ high = f.bitOffset + f.bitWidth - 1
            /\ \A i \in DOMAIN e : e[i].bitWidth = f.bitWidth /\ e[i].type = "natural"
            /\ (f.bitOffset = 3 /\ f.bitWidth = 5 /\ r.addressOffset = 4 /\ busWidth = 32)
                 => /\ Len(e) = 2
                    /\ e[1].name = f.name \o "_L" /\ e[1].value = 3
                    /\ e[2].name = f.name \o "_H" /\ e[2].value = 7

\* the field of the example has been written on a 32-bit bus
C10_Witness ==
    /\ call.op = "write_reg_field"
    /\ call.field.bitOffset = 3
    /\ call.field.bitWidth = 5
    /\ call.reg.addressOffset = 4
    /\ busWidth = 32
    /\ Len(Emitted) = 2

\* C5 as stated: the enumerated-value constants write_reg_enums emits for a
\* field, over all of its sets together, are in strictly ascending order of
\* value, one constant per distinct value.
C5_AscendingOverAllSets ==
    call.op = "write_reg_enums" =>
        LET f == call.field
            d == EmittedDecls
            sets == f.enumeratedValues
            vals == UNION {{sets[i].enumeratedValue[j].value :
                              j \in DOMAIN sets[i].enumeratedValue} :
                           i \in DOMAIN sets}
        IN  /\ \A i, j \in DOMAIN d : i < j => d[i].value < d[j].value
            /\ Len(d) = Cardinality(vals)

\* C5 as amended: write_reg_enums emits the sets one after another in
\* document order; inside each set one constant per enumerated value of the
\* set, named and valued as that enumerated value and carrying the field's
\* bitWidth, in ascending order of value (strictly ascending where the set's
\* values are distinct).
C5_AscendingWithinEachSet ==
    call.op = "write_reg_enums" =>
        LET f == call.field
            d == EmittedDecls
            sets == f.enumeratedValues
            RECURSIVE Offset(_)
            Offset(i) == IF i = 1 THEN 0
                         ELSE Offset(i - 1) + Len(sets[i - 1].enumeratedValue)
            total == IF sets = <<>> THEN 0
                     ELSE Offset(Len(sets)) + Len(sets[Len(sets)].enumeratedValue)
        IN  /\ Len(d) = total
            /\ \A i \in DOMAIN sets :
                 LET ev  == sets[i].enumeratedValue
                     seg == SubSeq(d, Offset(i) + 1, Offset(i) + Len(ev))
                 IN  /\ \A a, b \in DOMAIN seg : a < b => seg[a].value <= seg[b].value
                     /\ (\A a, b \in DOMAIN ev : a # b => ev[a].value # ev[b].value)
                          => \A a, b \in DOMAIN seg : a < b => seg[a].value < seg[b].value
                     /\ \A a \in DOMAIN ev : \E b \in DOMAIN seg :
                          /\ seg[b].name = ev[a].name
                          /\ seg[b].value = ev[a].value
                          /\ seg[b].bitWidth = f.bitWidth

\* a field with two sets has been written, the first set out of order in
\* the document and the second holding a value below the first set's highest
C5_Witness ==
    /\ call.op = "write_reg_enums"
    /\ Len(call.field.enumeratedValues) = 2
    /\ Len(call.field.enumeratedValues[1].enumeratedValue) = 2
    /\ call.field.enumeratedValues[1].enumeratedValue[1].value
         > call.field.enumeratedValues[1].enumeratedValue[2].value
    /\ Len(EmittedDecls) >= 3
    /\ EmittedDecls[2].value > EmittedDecls[3].value

\* C7: write_res_vals raises nothing; with no resets object, or a resets
\* object without a reset literal, it emits nothing and leaves the buffer as
\* it was; with a reset literal it emits exactly one declaration, named
\* <field>_RSTVAL and holding the literal.
C7_ResetConstant ==
    call.op = "write_res_vals" =>
        LET f == call.field
            e == Emitted
            bound == IF f.resets = None THEN FALSE ELSE f.resets.reset # None
        IN  /\ call.raised = FALSE
            /\ ~bound => e = <<>> /\ Len(out) = call.mark
            /\ bound =>
                 /\ Len(e) = 1
                 /\ IsDecl(e[1])
                 /\ e[1].name = f.name \o "_RSTVAL"
                 /\ e[1].value = f.resets.reset.value

\* a field whose resets object holds a literal has been written, as one
\* declaration
C7_Witness ==
    /\ call.op = "write_res_vals"
    /\ call.field.resets \in {[reset |-> [value |-> v]] : v \in 0..MaxResetVal}
    /\ Len(Emitted) = 1

(***************************************************************************)
(* Properties of the register level (SpecReg).                             *)
(***************************************************************************)
\* C9: __write_reg emits, in this order and without interleaving: the
\* register header comment; if writeFields, the position constants of all
\* fields, in ascending bitOffset order; if writeEnums, the enumerated-value
\* constants, field by field in document order; if writeReset, the reset
\* header comment and then the _RSTVAL constants; and last a blank line.  No
\* position constant follows an enum or reset constant, and each switch
\* decides the presence of its own step's declarations and of no others.
C9_RegisterEmissionOrder ==
    call.op = "__write_reg" =>
        LET reg    == call.reg
            fields == reg.field
            e      == Emitted
            PosNames(f)  == IF f.bitWidth = 1 THEN {f.name \o "_IND"}
                            ELSE {f.name \o "_L", f.name \o "_H"}
            EnumNames(f) == UNION {{f.enumeratedValues[i].enumeratedValue[j].name :
                                      j \in DOMAIN f.enumeratedValues[i].enumeratedValue} :
                                   i \in DOMAIN f.enumeratedValues}
            HasReset(f)  == IF f.resets = None THEN FALSE ELSE f.resets.reset # None
            IsPos(x)     == IsDecl(x) /\ x.type = "natural"
            IsEnum(x)    == IsDecl(x) /\ \E i \in DOMAIN fields : x.name \in EnumNames(fields[i])
            IsRst(x)     == IsDecl(x) /\ \E i \in DOMAIN fields : x.name = fields[i].name \o "_RSTVAL"
            IsRstHead(x) == x.kind = "comment"
                            /\ x.text = upper(reg.name) \o " register reset values"
            FieldOf(x)   == CHOOSE i \in DOMAIN fields :
                              x.name \in PosNames(fields[i]) \cup EnumNames(fields[i])
            pos   == SelectSeq(e, IsPos)
            enums == SelectSeq(e, IsEnum)
            rsts  == SelectSeq(e, IsRst)
            heads == SelectSeq(e, IsRstHead)
        IN  /\ Len(e) >= 2
            /\ e[1].kind = "comment"
            /\ e[1].text = reg.description
            /\ e[1].caption = upper(reg.name) \o " register"
            /\ e[Len(e)].kind = "nl"
            /\ \A i \in DOMAIN e : IsDecl(e[i]) => IsPos(e[i]) \/ IsEnum(e[i]) \/ IsRst(e[i])
            /\ \A i, j \in DOMAIN e : i < j =>
                 /\ (IsEnum(e[i]) \/ IsRstHead(e[i]) \/ IsRst(e[i])) => ~IsPos(e[j])
                 /\ (IsRstHead(e[i]) \/ IsRst(e[i])) => ~IsEnum(e[j])
                 /\ IsRst(e[i]) => ~IsRstHead(e[j])
            /\ IF call.writeFields
               THEN /\ {pos[a].name : a \in DOMAIN pos}
                         = UNION {PosNames(fields[i]) : i \in DOMAIN fields}
                    /\ Len(pos) = Cardinality({pos[a].name : a \in DOMAIN pos})
                    /\ \A a, b \in DOMAIN pos : a < b =>
                         fields[FieldOf(pos[a])].bitOffset <= fields[FieldOf(pos[b])].bitOffset
               ELSE pos = <<>>
            /\ IF call.writeEnums
               THEN /\ {enums[a].name : a \in DOMAIN enums}
                         = UNION {EnumNames(fields[i]) : i \in DOMAIN fields}
                    /\ Len(enums) = Cardinality({enums[a].name : a \in DOMAIN enums})
                    /\ \A a, b \in DOMAIN enums : a < b =>
                         FieldOf(enums[a]) <= FieldOf(enums[b])
               ELSE enums = <<>>
            /\ IF call.writeReset
               THEN /\ Len(heads) = 1
                    /\ {rsts[a].name : a \in DOMAIN rsts}
                         = {fields[i].name \o "_RSTVAL" : i \in {k \in DOMAIN fields : HasReset(fields[k])}}
                    /\ Len(rsts) = Cardinality({rsts[a].name : a \in DOMAIN rsts})
               ELSE heads = <<>> /\ rsts = <<>>

\* a register of three fields whose document order is not their bitOffset
\* order has been written with all three switches on
C9_Witness ==
    /\ call.op = "__write_reg"
    /\ call.writeFields /\ call.writeEnums /\ call.writeReset
    /\ Len(call.reg.field) = 3
    /\ call.reg.field[1].bitOffset > call.reg.field[2].bitOffset
    /\ call.reg.field[1].enumeratedValues # <<>>
    /\ \E i \in DOMAIN Emitted : IsDecl(Emitted[i]) /\ Emitted[i].type = "natural"

(***************************************************************************)
(* Properties of the address-block level (SpecBlock).                      *)
(***************************************************************************)
\* C6: write_addrbl_regs emits exactly one <register>_ADR constant per
\* register of the block, each of value addressOffset + block.baseAddress,
\* in strictly ascending addressOffset order whatever the order of the
\* block's register list (a register at offset 4 of a block based at 4096
\* gets 4100).
C6_RegisterAddresses ==
    call.op = "write_addrbl_regs" =>
        LET b    == call.addressBlock
            regs == b.register
            e    == Emitted
        IN  /\ Len(e) = Len(regs)
            /\ \A i \in DOMAIN e : IsDecl(e[i])
            /\ \A r \in DOMAIN regs :
                 /\ Cardinality({i \in DOMAIN e : e[i].name = regs[r].name \o "_ADR"}) = 1
                 /\ \A i \in DOMAIN e : e[i].name = regs[r].name \o "_ADR" =>
                      e[i].value = regs[r].addressOffset + b.baseAddress
            /\ \A i, j \in DOMAIN e : i < j =>
                 e[i].value - b.baseAddress < e[j].value - b.baseAddress
            /\ \A r \in DOMAIN regs : (regs[r].addressOffset = 4 /\ b.baseAddress = 4096) =>
                 \E i \in DOMAIN e : e[i].name = regs[r].name \o "_ADR" /\ e[i].value = 4100

\* a block based at 4096 whose register list is out of addressOffset order
\* and holds a register at offset 4 has been written
C6_Witness ==
    /\ call.op = "write_addrbl_regs"
    /\ call.addressBlock.baseAddress = 4096
    /\ Len(call.addressBlock.register) >= 2
    /\ call.addressBlock.register[1].addressOffset
         > call.addressBlock.register[2].addressOffset
    /\ \E i \in DOMAIN Emitted : Emitted[i].name = "status_ADR" /\ Emitted[i].value = 4100

(***************************************************************************)
(* Properties of the package level (Spec).                                 *)
(***************************************************************************)
\* a field, enum or reset constant: declared with alignment column 50
IsFieldConst(e) == IsDecl(e) /\ e.alignLen = 50

\* a block-select or register-address constant: alignment column 80
IsAddrConst(e) == IsDecl(e) /\ e.alignLen = 80

\* the last call ran the addresses mode over a map and returned
AddrModeRan ==
    /\ call.op \in {"write_mem_map_addr", "create_addrMap_package"}
    /\ call.raised = FALSE
    /\ addrMap # None

\* C2 as stated: in addresses mode the blocks' groups appear in ascending
\* baseAddress order, whatever the document order of the map's block list.
C2_BlocksByBaseAddress ==
    AddrModeRan =>
        LET blocks == addrMap.addressBlock
            IsBlockConst(x) ==
                IsDecl(x) /\ \E i \in DOMAIN blocks : x.name = blocks[i].name \o "_BLOCK"
            BaseOf(x) ==
                blocks[CHOOSE i \in DOMAIN blocks : x.name = blocks[i].name \o "_BLOCK"].baseAddress
            bc == SelectSeq(Emitted, IsBlockConst)
        IN  \A a, b \in DOMAIN bc : a < b => BaseOf(bc[a]) <= BaseOf(bc[b])

\* C2 as amended: in addresses mode the blocks' groups appear in document
\* order, the order of addrMap.addressBlock: the i-th header comment and the
\* i-th _BLOCK constant are those of the i-th block of the list, and each
\* register's _ADR constant lies after its own block's _BLOCK constant and
\* before the next block's header.
C2_BlocksInDocumentOrder ==
    AddrModeRan =>
        LET blocks == addrMap.addressBlock
            e == Emitted
            IsBlockConst(x) ==
                IsDecl(x) /\ \E i \in DOMAIN blocks : x.name = blocks[i].name \o "_BLOCK"
            IsHead(x) ==
                x.kind = "comment"
                /\ \E i \in DOMAIN blocks : x.text = "Address block: " \o blocks[i].name
            bc == SelectSeq(e, IsBlockConst)
            hd == SelectSeq(e, IsHead)
        IN  /\ Len(bc) = Len(blocks)
            /\ Len(hd) = Len(blocks)
            /\ \A i \in DOMAIN blocks :
                 /\ bc[i].name = blocks[i].name \o "_BLOCK"
                 /\ hd[i].text = "Address block: " \o blocks[i].name
                 /\ \A r \in DOMAIN blocks[i].register :
                      \E p \in DOMAIN e :
                         /\ IsDecl(e[p])
                         /\ e[p].name = blocks[i].register[r].name \o "_ADR"
                         /\ \E q \in 1..(p - 1) : e[q].kind = "decl" /\ e[q].name = bc[i].name
                         /\ i < Len(blocks) =>
                              \E q \in (p + 1)..Len(e) :
                                 e[q].kind = "comment" /\ e[q].text = hd[i + 1].text

\* addresses mode has run over a map whose first block lies above its second
C2_Witness ==
    /\ AddrModeRan
    /\ Len(addrMap.addressBlock) >= 2
    /\ addrMap.addressBlock[1].baseAddress > addrMap.addressBlock[2].baseAddress
    /\ \E i \in DOMAIN Emitted : IsAddrConst(Emitted[i])

\* the last call ran both modes, over two maps, and returned
BothModesRan ==
    /\ call.op \in {"write_mem_map_both", "create_addrMap_package"}
    /\ call.raised = FALSE
    /\ addrMap # None
    /\ fieldMap # None

\* C3 as stated: with both maps supplied, create_addrMap_package and
\* write_mem_map_both alike emit every field constant before any address
\* constant.
C3_FieldsBeforeAddresses ==
    BothModesRan =>
        \A i, j \in DOMAIN Emitted :
            IsFieldConst(Emitted[i]) /\ IsAddrConst(Emitted[j]) => i < j

\* C3 as amended: with both maps supplied, write_mem_map_both emits every
\* field constant before any address constant, and create_addrMap_package
\* emits every address constant before any field constant.
C3_OrderPerEntryPoint ==
    BothModesRan =>
        \A i, j \in DOMAIN Emitted :
            IsFieldConst(Emitted[i]) /\ IsAddrConst(Emitted[j]) =>
                IF call.op = "write_mem_map_both" THEN i < j ELSE j < i

\* create_addrMap_package has run over two maps and emitted constants of both
\* kinds
C3_Witness ==
    /\ BothModesRan
    /\ call.op = "create_addrMap_package"
    /\ \E i \in DOMAIN Emitted : IsFieldConst(Emitted[i])
    /\ \E j \in DOMAIN Emitted : IsAddrConst(Emitted[j])

\* the buffer as the k-th run of create_addrMap_package found it
BufferBefore(k) == SubSeq(pkgOut[k].buf, 1, pkgOut[k].mark)

\* the lines the k-th run of create_addrMap_package appended
LinesOf(k) == SubSeq(pkgOut[k].buf, pkgOut[k].mark + 1, Len(pkgOut[k].buf))

\* create_addrMap_package has run twice: first on a new generator, then
\* either on a new generator or again on the first one, whose buffer holds
\* the first run's output
TwoRuns ==
    /\ Len(pkgOut) = 2
    /\ BufferBefore(1) = <<>>
    /\ \/ BufferBefore(2) = <<>>
       \/ BufferBefore(2) = pkgOut[1].buf

C8_ModesFollowMaps ==
    call.op = "create_addrMap_package" =>
        LET e == Emitted
            IsKind(k) == {i \in DOMAIN e : e[i].kind = k}
            IsRegComment(x)   == x.kind = "comment" /\ "caption" \in DOMAIN x
            IsBlockComment(x) == x.kind = "comment" /\ "caption" \notin DOMAIN x
                                 /\ "small" \notin DOMAIN x
        IN  /\ call.raised = FALSE
            /\ Len(e) >= 10
            /\ e[Len(e)] = [kind |-> "package", name |-> call.name, start |-> FALSE]
            /\ Cardinality(IsKind("package")) = 2
            /\ Cardinality(IsKind("include")) = 1
            /\ (addrMap = None /\ fieldMap = None) =>
                 /\ IsKind("decl") = {}
                 /\ \A i \in IsKind("comment") :
                      e[i].text = "This file is autogenerated, DO NOT EDIT!"
                 /\ Len(e) = 10
                 /\ \A i \in DOMAIN e :
                      e[i].kind \in {"nl", "rule", "comment", "include", "package"}
            /\ fieldMap = None =>
                 \A i \in DOMAIN e : ~IsFieldConst(e[i]) /\ ~IsRegComment(e[i])
            /\ addrMap = None =>
                 \A i \in DOMAIN e : ~IsAddrConst(e[i]) /\ ~IsBlockComment(e[i])
            /\ fieldMap # None => \E i \in DOMAIN e : IsFieldConst(e[i])
            /\ addrMap # None => \E i \in DOMAIN e : IsAddrConst(e[i])

\* create_addrMap_package has run on a generator that has neither map
C8_Witness ==
    /\ call.op = "create_addrMap_package"
    /\ addrMap = None
    /\ fieldMap = None
    /\ Len(Emitted) = 10

====
